---- MODULE Spec2Model ----
(***************************************************************************)
(* Domain-Tool: week-over-week dashboard backend (backend_api.py) and the  *)
(* vendor queue ingestion flow (analytics_queue_fetcher.py).               *)
(*                                                                         *)
(* Conventions of the model                                                *)
(*   - a date is an integer number of days (midnight timestamps);          *)
(*   - a string that the code slices, sorts or rewrites (a domain name)    *)
(*     is a sequence of character codes, so that item[:40], sorted() and   *)
(*     the ^www\. regex are computed and not assumed;                      *)
(*   - the float column Conversions is kept in fixed point: the stored     *)
(*     number c stands for c / ConvDen, and int(x) truncates;              *)
(*   - Python's None is the empty tuple <<>>, a present value v is <<v>>;  *)
(*   - a DataFrame is the sequence of its rows, each row a record indexed  *)
(*     by column name.                                                     *)
(***************************************************************************)
EXTENDS Integers, Sequences, FiniteSets, TLC

VARIABLES
    file,   \* the snapshot file at DATA_CSV_PATH
    df,     \* the global DataFrame of backend_api.py
    req,    \* one /api/dashboard-data request in flight (its locals)
    run,    \* one ingestion run (/api/fetch or the scheduled job)
    reload  \* one /api/reload request in flight (its answer)

vars == <<file, df, req, run, reload>>

-----------------------------------------------------------------------------
(* Bounds of the model *)

MaxRows == 4        \* rows of a snapshot file
MaxTopN == 2        \* largest topN a request asks for
ConvDen == 2        \* fixed-point denominator of the float column

(* Program constants *)

DaysPerWeek == 7
WeekSpan == 6
NameLimit == 40

None == <<>>
Some(v) == <<v>>

-----------------------------------------------------------------------------
(* Strings as sequences of character codes *)

Name_a == <<97>>                        \* "a"
Name_b == <<98>>                        \* "b"
Name_c == <<99>>                        \* "c"
LongPrefix == [i \in 1..NameLimit |-> 120]
Name_long_a == LongPrefix \o <<97>>     \* "xx...xa", 41 characters
Name_long_b == LongPrefix \o <<98>>     \* "xx...xb", 41 characters
Name_www_long_b == <<119, 87, 119, 46>> \o Name_long_b     \* "wWw.xx...xb"

\* the missing value of a string column: read_csv reads an empty Domain cell
\* as NaN, which is equal to no string and is not a group key
NaNStr == <<-1>>

\* Python's str < str: lexicographic by code point, a proper prefix first.
RECURSIVE StrLess(_, _)
StrLess(s, t) ==
    IF t = <<>> THEN FALSE
    ELSE IF s = <<>> THEN TRUE
    ELSE IF Head(s) # Head(t) THEN Head(s) < Head(t)
    ELSE StrLess(Tail(s), Tail(t))

\* item[:40]
Truncate(s) == IF Len(s) <= NameLimit THEN s ELSE SubSeq(s, 1, NameLimit)

\* sorted(S) for a set of strings
RECURSIVE Sorted(_)
Sorted(S) ==
    IF S = {} THEN <<>>
    ELSE LET m == CHOOSE x \in S : \A y \in S \ {x} : StrLess(x, y)
         IN  <<m>> \o Sorted(S \ {m})

Range(s) == {s[i] : i \in DOMAIN s}

RECURSIVE SumSeq(_)
SumSeq(s) == IF s = <<>> THEN 0 ELSE Head(s) + SumSeq(Tail(s))

\* Series.sum() of one column over the rows of a frame
ColSum(rows, col) == SumSeq([i \in DOMAIN rows |-> rows[i][col]])

\* int(x) of a value of column col: the float column truncates toward zero
\* (all values are non-negative), the int64 columns are unchanged.
IntOf(col, v) == IF col = "Conversions" THEN v \div ConvDen ELSE v

-----------------------------------------------------------------------------
(* load_data: the snapshot file and the DataFrame built from it *)

\* A file is [exists, header, rows]: header is "none" for a file of 0 bytes,
\* "ok" for the expected columns, "nodomain" for a CSV without a Domain or
\* Domain (Old) column.  A CSV row has the columns Day, Advertiser, Campaign,
\* Domain, AdImpressions, Clicks, WeightedConversion; Day is None when
\* pd.to_datetime(errors='coerce') yields NaT, WeightedConversion is None for
\* an empty cell (NaN), Domain is NaNStr for an empty cell.

MissingFile == [exists |-> FALSE, header |-> "none", rows |-> <<>>]
CsvFile(rows) == [exists |-> TRUE, header |-> "ok", rows |-> rows]

\* str.replace(r'^www\.', '', regex=True, case=False)
StripWww(s) ==
    IF /\ Len(s) >= 4
       /\ s[1] \in {119, 87} /\ s[2] \in {119, 87} /\ s[3] \in {119, 87}
       /\ s[4] = 46
    THEN SubSeq(s, 5, Len(s))
    ELSE s

\* One parsed row: the derived columns Date, Impressions, Conversions,
\* Clean Domain, Clean Keyword (lines 41-49).
ParseRow(r) ==
    ("Clean Domain" :> StripWww(r.Domain)) @@ ("Clean Keyword" :> <<>>) @@
    [Date        |-> r.Day[1],
     Advertiser  |-> r.Advertiser,
     Campaign    |-> r.Campaign,
     Impressions |-> r.AdImpressions,
     Clicks      |-> r.Clicks,
     Conversions |-> IF r.WeightedConversion = None THEN 0
                     ELSE r.WeightedConversion[1]]

EmptyTable == <<>>

\* load_data(): [raised, df].  A missing file gives the empty frame; a file
\* of 0 bytes makes read_csv raise, a file without a Domain column raises
\* ValueError, a Domain column with no value at all is read as float64 and
\* makes the .str accessor of line 48 raise; otherwise the rows with a
\* parseable Day are kept, in order.
load_data(f) ==
    IF ~f.exists THEN [raised |-> FALSE, df |-> EmptyTable]
    ELSE IF f.header # "ok" THEN [raised |-> TRUE, df |-> EmptyTable]
    ELSE IF f.rows # <<>> /\ \A i \in DOMAIN f.rows : f.rows[i].Domain = NaNStr
    THEN [raised |-> TRUE, df |-> EmptyTable]
    ELSE LET kept == SelectSeq(f.rows, LAMBDA r : r.Day # None)
         IN  [raised |-> FALSE, df |-> [i \in DOMAIN kept |-> ParseRow(kept[i])]]

\* reload_data(): the value of the global df after the call (lines 56-63):
\* the exception of load_data is caught and logged, df keeps its value.
reload_data(f, old) ==
    LET r == load_data(f) IN IF r.raised THEN old ELSE r.df

-----------------------------------------------------------------------------
(* The engine: windows, aggregates, totals *)

\* a slip: the window starts a whole week before its end (8 days)
get_week_range_SevenBack(date, week_offset) ==
    LET week_end   == date - week_offset * DaysPerWeek
        week_start == week_end - DaysPerWeek
    IN  <<week_start, week_end>>

\* get_week_range(date, week_offset): <<week_start, week_end>>
get_week_range(date, week_offset) ==
    LET week_end   == date - week_offset * DaysPerWeek
        week_start == week_end - WeekSpan
    IN  <<week_start, week_end>>

\* a slip: the lower bound of the mask is left out
DateSlice_NoLowerBound(base, week_start, week_end) ==
    SelectSeq(base, LAMBDA r : r.Date <= week_end)

\* base[(base['Date'] >= week_start) & (base['Date'] <= week_end)]
DateSlice(base, week_start, week_end) ==
    SelectSeq(base, LAMBDA r : r.Date >= week_start /\ r.Date <= week_end)

\* Python truthiness of a filter string, and the two sentinel tests
FilterOn(value, sentinel) == value # "" /\ value # sentinel

\* the advertiser / campaign filters applied to a frame
ApplyFilters(rows, advertiser, campaign) ==
    SelectSeq(rows, LAMBDA r :
        /\ (FilterOn(advertiser, "All Advertisers") => r.Advertiser = advertiser)
        /\ (FilterOn(campaign, "All Campaigns") => r.Campaign = campaign))

Metrics == {"Conversions", "Clicks", "Impressions"}

\* the sort keys by metric_type (lines 146-153)
SortBy(metric_type) ==
    IF metric_type = "Conversions" THEN <<"Conversions", "Clicks", "Impressions">>
    ELSE IF metric_type = "Clicks" THEN <<"Clicks", "Conversions", "Impressions">>
    ELSE IF metric_type = "Impressions" THEN <<"Impressions", "Conversions", "Clicks">>
    ELSE <<"Conversions", "Clicks", "Impressions">>

\* a slip: sort_values(by=metric_type), the primary key alone
KeyGreater_PrimaryOnly(a, b, by) == a[by[1]] > b[by[1]]

\* a sorts strictly before b under sort_values(by, ascending=False)
KeyGreater(a, b, by) ==
    \/ a[by[1]] > b[by[1]]
    \/ a[by[1]] = b[by[1]] /\ a[by[2]] > b[by[2]]
    \/ a[by[1]] = b[by[1]] /\ a[by[2]] = b[by[2]] /\ a[by[3]] > b[by[3]]

\* sort_values is a stable lexsort: equal keys keep the order of groupby,
\* which is ascending group key.
RECURSIVE InsertDesc(_, _, _)
InsertDesc(sorted, x, by) ==
    IF sorted = <<>> THEN <<x>>
    ELSE IF KeyGreater(x, Head(sorted), by) THEN <<x>> \o sorted
    ELSE <<Head(sorted)>> \o InsertDesc(Tail(sorted), x, by)

RECURSIVE SortDesc(_, _)
SortDesc(rows, by) ==
    IF rows = <<>> THEN <<>>
    ELSE InsertDesc(SortDesc(SubSeq(rows, 1, Len(rows) - 1), by), rows[Len(rows)], by)

\* groupby(group_col).agg(sum).reset_index(): one row per key, keys
\* ascending; groupby leaves out the rows whose key is missing (dropna=True)
GroupSum(rows, group_col) ==
    LET keys == Sorted({rows[i][group_col] : i \in DOMAIN rows} \ {NaNStr})
        Of(k) == SelectSeq(rows, LAMBDA r : r[group_col] = k)
    IN  [i \in DOMAIN keys |->
            (group_col :> keys[i]) @@
            [Conversions |-> ColSum(Of(keys[i]), "Conversions"),
             Clicks      |-> ColSum(Of(keys[i]), "Clicks"),
             Impressions |-> ColSum(Of(keys[i]), "Impressions")]]

\* a slip: range(len(domain_metrics)), ranks from 0
AssignRank_ZeroBased(rows) == [i \in DOMAIN rows |-> rows[i] @@ [Rank |-> i - 1]]

\* domain_metrics['Rank'] = range(1, len(domain_metrics) + 1)
AssignRank(rows) == [i \in DOMAIN rows |-> rows[i] @@ [Rank |-> i]]

calculate_metrics(advertiser, campaign, week_start, week_end, metric_type, group_col, data_df) ==
    LET week_data == ApplyFilters(DateSlice(data_df, week_start, week_end), advertiser, campaign)
        domain_metrics == GroupSum(week_data, group_col)
    IN  AssignRank(SortDesc(domain_metrics, SortBy(metric_type)))

get_raw_totals(advertiser, campaign, week_start, week_end, data_df) ==
    LET week_data == ApplyFilters(DateSlice(data_df, week_start, week_end), advertiser, campaign)
    IN  [impressions |-> IntOf("Impressions", ColSum(week_data, "Impressions")),
         clicks      |-> IntOf("Clicks", ColSum(week_data, "Clicks")),
         conversions |-> IntOf("Conversions", ColSum(week_data, "Conversions"))]

\* metric_type.lower(), for the three metrics the totals have a key for
Lower(metric_type) ==
    IF metric_type = "Conversions" THEN "conversions"
    ELSE IF metric_type = "Clicks" THEN "clicks"
    ELSE IF metric_type = "Impressions" THEN "impressions"
    ELSE "other"

-----------------------------------------------------------------------------
(* get_dashboard_data: classification, trends, contribution, pies *)

Min(a, b) == IF a <= b THEN a ELSE b

\* the resolved anchor date (lines 229-242); raw_date is None for a missing
\* or empty 'date', <<d>> for a date that parses, BadDate for a string that
\* pd.to_datetime(errors='coerce') turns into NaT.
BadDate == <<0, 0>>

DefaultDate(table, now) ==
    IF Len(table) > 0
    THEN CHOOSE d \in {table[i].Date : i \in DOMAIN table} :
             \A i \in DOMAIN table : table[i].Date <= d
    ELSE now

SelectedDate(raw_date, default_date) ==
    IF raw_date = None \/ raw_date = BadDate THEN default_date ELSE raw_date[1]

GroupCol(analysis_type) ==
    IF analysis_type = "Keyword" THEN "Clean Keyword" ELSE "Clean Domain"

\* set(metrics.head(top_n)[group_col].tolist()), top_n >= 0
TopSet(metrics, top_n, group_col) ==
    {metrics[i][group_col] : i \in 1..Min(top_n, Len(metrics))}

\* metrics[metrics[group_col] == item]
RowsOf(metrics, group_col, item) ==
    SelectSeq(metrics, LAMBDA r : r[group_col] = item)

\* a slip: the guard tests the numerator's week, not the denominator's
ChangePct_GuardsWeek2(week1_value, week2_value) ==
    IF week2_value > 0
    THEN Some([num |-> (week2_value - week1_value) * 100, den |-> week1_value])
    ELSE None

\* ((week2_value - week1_value) / week1_value * 100) if week1_value > 0 else
\* None, kept as the exact fraction num / den
ChangePct(week1_value, week2_value) ==
    IF week1_value > 0
    THEN Some([num |-> (week2_value - week1_value) * 100, den |-> week1_value])
    ELSE None

\* Python truthiness of an optional rank or rank delta: None and 0 are false
Truthy(x) == x # None /\ x[1] # 0

\* a slip: the calendar stops the day before week2_end
Trend_OffByOne(df_range, item, advertiser, campaign, metric_type, group_col, week1_start, week2_end) ==
    LET trend_data == ApplyFilters(SelectSeq(df_range, LAMBDA r : r[group_col] = item),
                                   advertiser, campaign)
        Daily(d) == ColSum(SelectSeq(trend_data, LAMBDA r : r.Date = d), metric_type)
    IN  [i \in 1..(week2_end - week1_start) |-> Daily(week1_start + i - 1)]

\* a slip: the rows of the slice before week1_start are folded into the
\* first day instead of being dropped by the reindex
Trend_KeepsEarlierRows(df_range, item, advertiser, campaign, metric_type, group_col, week1_start, week2_end) ==
    LET trend_data == ApplyFilters(SelectSeq(df_range, LAMBDA r : r[group_col] = item),
                                   advertiser, campaign)
        Daily(d) == ColSum(SelectSeq(trend_data, LAMBDA r :
                               r.Date = d \/ (d = week1_start /\ r.Date < d)), metric_type)
    IN  [i \in 1..(week2_end - week1_start + 1) |-> Daily(week1_start + i - 1)]

\* the 14-day trend of one item (lines 294-302): the item's rows of the
\* working slice under the filters, summed per Date, reindexed onto
\* pd.date_range(week1_start, week2_end) with fill_value 0
Trend(df_range, item, advertiser, campaign, metric_type, group_col, week1_start, week2_end) ==
    LET trend_data == ApplyFilters(SelectSeq(df_range, LAMBDA r : r[group_col] = item),
                                   advertiser, campaign)
        Daily(d) == ColSum(SelectSeq(trend_data, LAMBDA r : r.Date = d), metric_type)
    IN  [i \in 1..(week2_end - week1_start + 1) |-> Daily(week1_start + i - 1)]

\* Tier 1 (lines 281-313)
MaintainedEntry(item, week1_metrics, week2_metrics, metric_type, group_col, trend) ==
    LET week1_row == RowsOf(week1_metrics, group_col, item)[1]
        week2_row == RowsOf(week2_metrics, group_col, item)[1]
        week1_value == week1_row[metric_type]
        week2_value == week2_row[metric_type]
    IN  [domain     |-> item,
         tier       |-> "maintained",
         week1Conv  |-> IntOf(metric_type, week1_value),
         rank1      |-> Some(week1_row.Rank),
         week2Conv  |-> IntOf(metric_type, week2_value),
         rank2      |-> Some(week2_row.Rank),
         change     |-> ChangePct(week1_value, week2_value),
         rankChange |-> Some(week1_row.Rank - week2_row.Rank),
         trend      |-> trend]

\* a slip: the rank delta of a new entity is taken as week2 - week1
NewEntry_RankDeltaReversed(item, week1_metrics, week2_metrics, metric_type, group_col, trend) ==
    LET week2_row == RowsOf(week2_metrics, group_col, item)[1]
        week2_value == week2_row[metric_type]
        week2_rank == week2_row.Rank
        week1_row == RowsOf(week1_metrics, group_col, item)
        week1_value == IF week1_row # <<>> THEN week1_row[1][metric_type] ELSE 0
        week1_rank == IF week1_row # <<>> THEN Some(week1_row[1].Rank) ELSE None
        rank_change == IF Truthy(week1_rank) THEN Some(week2_rank - week1_rank[1]) ELSE None
    IN  [domain     |-> item,
         tier       |-> "new",
         week1Conv  |-> IntOf(metric_type, week1_value),
         rank1      |-> IF Truthy(week1_rank) THEN week1_rank ELSE None,
         week2Conv  |-> IntOf(metric_type, week2_value),
         rank2      |-> Some(week2_rank),
         change     |-> ChangePct(week1_value, week2_value),
         rankChange |-> IF Truthy(rank_change) THEN rank_change ELSE None,
         trend      |-> trend]

\* a slip: an entity without a week1 row is reported as grown by 100 percent
NewEntry_ChangeFromZero(item, week1_metrics, week2_metrics, metric_type, group_col, trend) ==
    LET week2_row == RowsOf(week2_metrics, group_col, item)[1]
        week2_value == week2_row[metric_type]
        week2_rank == week2_row.Rank
        week1_row == RowsOf(week1_metrics, group_col, item)
        week1_value == IF week1_row # <<>> THEN week1_row[1][metric_type] ELSE 0
        week1_rank == IF week1_row # <<>> THEN Some(week1_row[1].Rank) ELSE None
        rank_change == IF Truthy(week1_rank) THEN Some(week1_rank[1] - week2_rank) ELSE None
    IN  [domain     |-> item,
         tier       |-> "new",
         week1Conv  |-> IntOf(metric_type, week1_value),
         rank1      |-> IF Truthy(week1_rank) THEN week1_rank ELSE None,
         week2Conv  |-> IntOf(metric_type, week2_value),
         rank2      |-> Some(week2_rank),
         change     |-> IF week1_value > 0 THEN ChangePct(week1_value, week2_value)
                        ELSE Some([num |-> 100, den |-> 1]),
         rankChange |-> IF Truthy(rank_change) THEN rank_change ELSE None,
         trend      |-> trend]

\* Tier 2 (lines 316-350)
NewEntry(item, week1_metrics, week2_metrics, metric_type, group_col, trend) ==
    LET week2_row == RowsOf(week2_metrics, group_col, item)[1]
        week2_value == week2_row[metric_type]
        week2_rank == week2_row.Rank
        week1_row == RowsOf(week1_metrics, group_col, item)
        week1_value == IF week1_row # <<>> THEN week1_row[1][metric_type] ELSE 0
        week1_rank == IF week1_row # <<>> THEN Some(week1_row[1].Rank) ELSE None
        rank_change == IF Truthy(week1_rank) THEN Some(week1_rank[1] - week2_rank) ELSE None
    IN  [domain     |-> item,
         tier       |-> "new",
         week1Conv  |-> IntOf(metric_type, week1_value),
         rank1      |-> IF Truthy(week1_rank) THEN week1_rank ELSE None,
         week2Conv  |-> IntOf(metric_type, week2_value),
         rank2      |-> Some(week2_rank),
         change     |-> ChangePct(week1_value, week2_value),
         rankChange |-> IF Truthy(rank_change) THEN rank_change ELSE None,
         trend      |-> trend]

\* a slip: the missing week2 rank is taken as 0 in the rank delta
DroppedEntry_MissingRankAsZero(item, week1_metrics, week2_metrics, metric_type, group_col, trend) ==
    LET week1_row == RowsOf(week1_metrics, group_col, item)[1]
        week1_value == week1_row[metric_type]
        week1_rank == week1_row.Rank
        week2_row == RowsOf(week2_metrics, group_col, item)
        week2_value == IF week2_row # <<>> THEN week2_row[1][metric_type] ELSE 0
        week2_rank == IF week2_row # <<>> THEN Some(week2_row[1].Rank) ELSE None
        rank_change == IF Truthy(week2_rank) THEN Some(week1_rank - week2_rank[1])
                       ELSE Some(week1_rank)
    IN  [domain     |-> item,
         tier       |-> "dropped",
         week1Conv  |-> IntOf(metric_type, week1_value),
         rank1      |-> Some(week1_rank),
         week2Conv  |-> IntOf(metric_type, week2_value),
         rank2      |-> IF Truthy(week2_rank) THEN week2_rank ELSE None,
         change     |-> ChangePct(week1_value, week2_value),
         rankChange |-> IF Truthy(rank_change) THEN rank_change ELSE None,
         trend      |-> trend]

\* Tier 3 (lines 353-387)
DroppedEntry(item, week1_metrics, week2_metrics, metric_type, group_col, trend) ==
    LET week1_row == RowsOf(week1_metrics, group_col, item)[1]
        week1_value == week1_row[metric_type]
        week1_rank == week1_row.Rank
        week2_row == RowsOf(week2_metrics, group_col, item)
        week2_value == IF week2_row # <<>> THEN week2_row[1][metric_type] ELSE 0
        week2_rank == IF week2_row # <<>> THEN Some(week2_row[1].Rank) ELSE None
        rank_change == IF Truthy(week2_rank) THEN Some(week1_rank - week2_rank[1]) ELSE None
    IN  [domain     |-> item,
         tier       |-> "dropped",
         week1Conv  |-> IntOf(metric_type, week1_value),
         rank1      |-> Some(week1_rank),
         week2Conv  |-> IntOf(metric_type, week2_value),
         rank2      |-> IF Truthy(week2_rank) THEN week2_rank ELSE None,
         change     |-> ChangePct(week1_value, week2_value),
         rankChange |-> IF Truthy(rank_change) THEN rank_change ELSE None,
         trend      |-> trend]

\* a slip: the new tier is the whole week2 top N
Tiers_NewNotSubtracted(week1_metrics, week2_metrics, top_n, group_col) ==
    LET week1_top == TopSet(week1_metrics, top_n, group_col)
        week2_top == TopSet(week2_metrics, top_n, group_col)
    IN  [maintained_domains |-> week1_top \cap week2_top,
         new_domains        |-> week2_top,
         dropped_domains    |-> week1_top \ week2_top]

\* The three classified sets (lines 268-275)
Tiers(week1_metrics, week2_metrics, top_n, group_col) ==
    LET week1_top == TopSet(week1_metrics, top_n, group_col)
        week2_top == TopSet(week2_metrics, top_n, group_col)
    IN  [maintained_domains |-> week1_top \cap week2_top,
         new_domains        |-> week2_top \ week1_top,
         dropped_domains    |-> week1_top \ week2_top]

\* a slip: the new tier reads its week1 row with .iloc[0] too
LookupRaises_Unguarded(tiers, week1_metrics, week2_metrics, group_col) ==
    \/ \E item \in tiers.maintained_domains :
          \/ RowsOf(week1_metrics, group_col, item) = <<>>
          \/ RowsOf(week2_metrics, group_col, item) = <<>>
    \/ \E item \in tiers.new_domains :
          \/ RowsOf(week1_metrics, group_col, item) = <<>>
          \/ RowsOf(week2_metrics, group_col, item) = <<>>
    \/ \E item \in tiers.dropped_domains : RowsOf(week1_metrics, group_col, item) = <<>>

\* .iloc[0] of an empty selection raises IndexError: the unguarded lookups of
\* the three loops
LookupRaises(tiers, week1_metrics, week2_metrics, group_col) ==
    \/ \E item \in tiers.maintained_domains :
          \/ RowsOf(week1_metrics, group_col, item) = <<>>
          \/ RowsOf(week2_metrics, group_col, item) = <<>>
    \/ \E item \in tiers.new_domains : RowsOf(week2_metrics, group_col, item) = <<>>
    \/ \E item \in tiers.dropped_domains : RowsOf(week1_metrics, group_col, item) = <<>>

\* contribution chart (lines 389-405): one dict per day; the key of an item
\* is item[:40], assigned in sorted order, a later assignment to the same key
\* replacing the earlier one
DateKey == <<100, 97, 116, 101>>     \* "date"
DateLabel(date) == [b_d |-> date]    \* strftime('%b %d') of one of 14 days

RECURSIVE AssignItems(_, _, _)
AssignItems(data_point, items, value) ==
    IF items = <<>> THEN data_point
    ELSE AssignItems((Truncate(Head(items)) :> value[Head(items)]) @@ data_point,
                     Tail(items), value)

ContributionData(df_range, all_union_items, advertiser, campaign, metric_type, group_col, week1_start, week2_end) ==
    LET contrib_df == ApplyFilters(df_range, advertiser, campaign)
        daily_sums(date, item) ==
            ColSum(SelectSeq(contrib_df, LAMBDA r : r.Date = date /\ r[group_col] = item),
                   metric_type)
        DataPoint(date) ==
            LET value == [item \in Range(all_union_items) |->
                             IntOf(metric_type, daily_sums(date, item))]
            IN  AssignItems(DateKey :> DateLabel(date), all_union_items, value)
    IN  [i \in 1..(week2_end - week1_start + 1) |-> DataPoint(week1_start + i - 1)]

\* pie chart of one week (lines 408-434): its own top N, then "Others"
OthersName == <<79, 116, 104, 101, 114, 115>>     \* "Others"

PieData(metrics, top_n, metric_type, group_col) ==
    LET n == Min(top_n, Len(metrics))
        top == [i \in 1..n |-> [name  |-> Truncate(metrics[i][group_col]),
                                value |-> IntOf(metric_type, metrics[i][metric_type])]]
        others == ColSum(SubSeq(metrics, top_n + 1, Len(metrics)), metric_type)
    IN  IF Len(metrics) > top_n /\ others > 0
        THEN Append(top, [name |-> OthersName, value |-> IntOf(metric_type, others)])
        ELSE top

\* the body of the handler from line 257 on, over the locals of the request:
\* the JSON response, or status 500 when an exception escapes the handler
ErrorResponse == [status |-> 500]

Respond(df_range, data, weeks) ==
    LET top_n == data.topN
        advertiser == data.advertiser
        campaign == data.campaign
        metric_type == data.metric
        group_col == GroupCol(data.analysisType)
        week1_start == weeks[1][1]
        week1_end == weeks[1][2]
        week2_start == weeks[0][1]
        week2_end == weeks[0][2]
        week1_raw == get_raw_totals(advertiser, campaign, week1_start, week1_end, df_range)
        week2_raw == get_raw_totals(advertiser, campaign, week2_start, week2_end, df_range)
        week1_metrics == calculate_metrics(advertiser, campaign, week1_start, week1_end,
                                           metric_type, group_col, df_range)
        week2_metrics == calculate_metrics(advertiser, campaign, week2_start, week2_end,
                                           metric_type, group_col, df_range)
        tiers == Tiers(week1_metrics, week2_metrics, top_n, group_col)
        TrendOf(item) == Trend(df_range, item, advertiser, campaign, metric_type,
                               group_col, week1_start, week2_end)
        maintained == Sorted(tiers.maintained_domains)
        new == Sorted(tiers.new_domains)
        dropped == Sorted(tiers.dropped_domains)
        domain_data ==
            [i \in DOMAIN maintained |->
                MaintainedEntry(maintained[i], week1_metrics, week2_metrics,
                                metric_type, group_col, TrendOf(maintained[i]))]
            \o [i \in DOMAIN new |->
                NewEntry(new[i], week1_metrics, week2_metrics,
                         metric_type, group_col, TrendOf(new[i]))]
            \o [i \in DOMAIN dropped |->
                DroppedEntry(dropped[i], week1_metrics, week2_metrics,
                             metric_type, group_col, TrendOf(dropped[i]))]
        all_union_items == Sorted(tiers.maintained_domains \cup tiers.new_domains
                                  \cup tiers.dropped_domains)
    IN  IF metric_type \notin Metrics
        THEN ErrorResponse      \* KeyError: week1_raw[metric_type.lower()]
        ELSE IF LookupRaises(tiers, week1_metrics, week2_metrics, group_col)
        THEN ErrorResponse      \* IndexError: .iloc[0]
        ELSE [status |-> 200,
              kpis |-> [week1Total |-> week1_raw[Lower(metric_type)],
                        week2Total |-> week2_raw[Lower(metric_type)]],
              domainData |-> domain_data,
              contributionData |->
                  ContributionData(df_range, all_union_items, advertiser, campaign,
                                   metric_type, group_col, week1_start, week2_end),
              pieDataWeek1 |-> PieData(week1_metrics, top_n, metric_type, group_col),
              pieDataWeek2 |-> PieData(week2_metrics, top_n, metric_type, group_col),
              weekRanges |-> [week1 |-> [start |-> week1_start, end |-> week1_end],
                              week2 |-> [start |-> week2_start, end |-> week2_end]]]

\* the four windows of lines 250-253, by offset
Weeks(selected_date) == [o \in 0..3 |-> get_week_range(selected_date, o)]

\* line 255: the 4-week working slice of the table the global df names
WorkingSlice(table, weeks) == DateSlice(table, weeks[3][1], weeks[0][2])

\* the whole handler on one table: what a request answers when the global df
\* names the same table at every read
get_dashboard_data(table, data, now) ==
    LET weeks == Weeks(SelectedDate(data.date, DefaultDate(table, now)))
    IN  Respond(WorkingSlice(table, weeks), data, weeks)

-----------------------------------------------------------------------------
(* Inputs *)

Clock == {30}       \* pd.Timestamp.now().normalize(), as a day number
ExplicitDates == {28}     \* the explicit anchor date requests send

Row(day, adv, camp, dom, imp, clk, conv) ==
    [Day |-> day, Advertiser |-> adv, Campaign |-> camp, Domain |-> dom,
     AdImpressions |-> imp, Clicks |-> clk, WeightedConversion |-> conv]

\* CSV rows the snapshot files are built from; for the explicit anchor 28:
\* week2 = 22..28, week1 = 15..21, week0 = 8..14, working slice from day 1
RowPool ==
    <<Row(Some(16), "adv1", "cmp1", Name_long_a, 2, 1, Some(2)),
      Row(Some(16), "adv1", "cmp1", Name_long_b, 1, 1, Some(2)),
      Row(Some(25), "adv1", "cmp1", Name_long_a, 1, 1, Some(1)),
      Row(Some(25), "adv2", "cmp2", Name_www_long_b, 2, 0, Some(3)),
      Row(Some(28), "adv1", "cmp2", Name_c, 0, 2, Some(0)),
      Row(Some(19), "adv1", "cmp1", Name_c, 0, 1, None),
      Row(Some(10), "adv1", "cmp1", Name_long_a, 1, 1, Some(1)),
      Row(Some(30), "adv1", "cmp1", Name_long_b, 1, 1, Some(1)),
      Row(Some(25), "adv1", "cmp1", NaNStr, 1, 1, Some(2))>>

\* the rows of RowPool with index in ids, in pool order
RECURSIVE Pick(_, _)
Pick(ids, from) ==
    IF from > Len(RowPool) THEN <<>>
    ELSE (IF from \in ids THEN <<RowPool[from]>> ELSE <<>>) \o Pick(ids, from + 1)

Files ==
    {CsvFile(Pick(ids, 1)) : ids \in {x \in SUBSET (1..Len(RowPool)) : Cardinality(x) <= MaxRows}}

Requests ==
    [topN : 0..MaxTopN,
     advertiser : {"All Advertisers", "adv1", "nobody"},
     campaign : {"All Campaigns", "cmp2"},
     date : {None} \cup {Some(d) : d \in ExplicitDates},
     metric : Metrics \cup {"Revenue"},
     analysisType : {"Domain", "Keyword"}]

-----------------------------------------------------------------------------
(* The dashboard request, step by step at its reads of the global df *)

IdleReq ==
    [pc |-> "idle", data |-> None, df_229 |-> None, selected_date |-> None,
     weeks |-> None, df_255 |-> None, df_range |-> None, response |-> None]

\* no /api/reload request in flight
IdleReload == [pc |-> "idle", logged |-> FALSE, response |-> None]

\* no ingestion run in flight
IdleRun ==
    [pc |-> "idle", who |-> "", queue_id |-> None, elapsed |-> 0, status |-> None,
     content |-> None, written |-> 0, result |-> None]

\* lines 224-253: the request body, the default date from the global df, the
\* resolved anchor and the four windows
ReqBegin(requests) ==
    /\ req.pc = "idle"
    /\ \E data \in requests, now \in Clock :
          req' = [IdleReq EXCEPT
                     !.pc = "resolved",
                     !.data = data,
                     !.df_229 = df,
                     !.selected_date = SelectedDate(data.date, DefaultDate(df, now)),
                     !.weeks = Weeks(SelectedDate(data.date, DefaultDate(df, now)))]
    /\ UNCHANGED <<file, df, run, reload>>

\* line 255: df_range from the global df
ReqSlice ==
    /\ req.pc = "resolved"
    /\ req' = [req EXCEPT !.pc = "sliced",
                          !.df_255 = df,
                          !.df_range = WorkingSlice(df, req.weeks)]
    /\ UNCHANGED <<file, df, run, reload>>

\* lines 257-455: everything else works on the locals
ReqRespond ==
    /\ req.pc = "sliced"
    /\ req' = [req EXCEPT !.pc = "done",
                          !.response = Respond(req.df_range, req.data, req.weeks)]
    /\ UNCHANGED <<file, df, run, reload>>

\* return jsonify(...): the response is sent, the locals are gone
ReqReturn ==
    /\ req.pc = "done"
    /\ req' = IdleReq
    /\ UNCHANGED <<file, df, run, reload>>

-----------------------------------------------------------------------------
(* The engine alone: any snapshot file loaded at start-up, then requests *)

InitEngine ==
    /\ file \in Files
    /\ ~load_data(file).raised     \* line 53 has not stopped the import
    /\ df = load_data(file).df
    /\ req = IdleReq
    /\ run = IdleRun
    /\ reload = IdleReload

NextEngine == ReqBegin(Requests) \/ ReqSlice \/ ReqRespond \/ ReqReturn

SpecEngine == InitEngine /\ [][NextEngine]_vars

-----------------------------------------------------------------------------
(* Properties of the engine.  Each is stated over the locals of a request   *)
(* and recomputes what it needs directly from the rows of the working       *)
(* slice, not through the operators of the handler.                         *)

Answered == req.pc = "done" /\ req.response.status = 200

\* the rows of the working slice that pass the request's filters and fall in
\* the days lo..hi
Passing(lo, hi) ==
    {i \in DOMAIN req.df_range :
        /\ req.df_range[i].Date \in lo..hi
        /\ (req.data.advertiser \in {"", "All Advertisers"}
              \/ req.df_range[i].Advertiser = req.data.advertiser)
        /\ (req.data.campaign \in {"", "All Campaigns"}
              \/ req.df_range[i].Campaign = req.data.campaign)}

ReqGroupCol == IF req.data.analysisType = "Keyword" THEN "Clean Keyword" ELSE "Clean Domain"

\* the distinct grouping keys among those rows
KeysIn(lo, hi) == {req.df_range[i][ReqGroupCol] : i \in Passing(lo, hi)} \ {NaNStr}

RECURSIVE SumOver(_, _)
SumOver(S, col) ==
    IF S = {} THEN 0
    ELSE LET i == CHOOSE x \in S : TRUE
         IN  req.df_range[i][col] + SumOver(S \ {i}, col)

\* the summed column col of entity e over the days lo..hi
EntitySum(e, lo, hi, col) ==
    SumOver({i \in Passing(lo, hi) : req.df_range[i][ReqGroupCol] = e}, col)

ReqD == req.selected_date
ReqAggregate(offset) ==
    calculate_metrics(req.data.advertiser, req.data.campaign,
                      ReqD - 7 * offset - 6, ReqD - 7 * offset,
                      req.data.metric, ReqGroupCol, req.df_range)
ReqTop(offset) ==
    {ReqAggregate(offset)[i][ReqGroupCol] :
        i \in 1..Min(req.data.topN, Len(ReqAggregate(offset)))}

\* C1: the three tiers partition week1Top \cup week2Top, and every entity of
\* the union is emitted in domainData exactly once, with the tier of its set.
C1_TiersPartitionTopUnion ==
    Answered =>
        LET t == Tiers(ReqAggregate(1), ReqAggregate(0), req.data.topN, ReqGroupCol)
            union == ReqTop(1) \cup ReqTop(0)
            dd == req.response.domainData
            SetOf(tier) == IF tier = "maintained" THEN t.maintained_domains
                           ELSE IF tier = "new" THEN t.new_domains
                           ELSE t.dropped_domains
        IN  /\ t.maintained_domains \cup t.new_domains \cup t.dropped_domains = union
            /\ t.maintained_domains \cap t.new_domains = {}
            /\ t.maintained_domains \cap t.dropped_domains = {}
            /\ t.new_domains \cap t.dropped_domains = {}
            /\ \A e \in union : Cardinality({i \in DOMAIN dd : dd[i].domain = e}) = 1
            /\ \A i \in DOMAIN dd :
                  /\ dd[i].tier \in {"maintained", "new", "dropped"}
                  /\ dd[i].domain \in SetOf(dd[i].tier)

C1_Witness ==
    /\ Answered
    /\ \A tier \in {"maintained", "new", "dropped"} :
          \E i \in DOMAIN req.response.domainData : req.response.domainData[i].tier = tier

\* C2: the ranks of every aggregate of the request are exactly 1..K, each
\* once, K the number of distinct grouping keys in the filtered window; an
\* empty slice gives an empty aggregate.
C2_RanksDensePermutation ==
    req.pc \in {"sliced", "done"} =>
        \A offset \in 0..2 :
            LET m == ReqAggregate(offset)
                K == Cardinality(KeysIn(ReqD - 7 * offset - 6, ReqD - 7 * offset))
            IN  /\ Len(m) = K
                /\ {m[i].Rank : i \in DOMAIN m} = 1..K
                /\ \A i, j \in DOMAIN m : m[i].Rank = m[j].Rank => i = j
                /\ {m[i][ReqGroupCol] : i \in DOMAIN m} =
                       KeysIn(ReqD - 7 * offset - 6, ReqD - 7 * offset)

\* two entities tie on the primary metric in week1 and still get ranks 1, 2
C2_Witness ==
    /\ req.pc = "done"
    /\ req.data.metric \in Metrics
    /\ LET m == ReqAggregate(1)
       IN  Len(m) >= 2 /\ m[1][req.data.metric] = m[2][req.data.metric]

\* C3: every window is (end - 6, end) with end = D - 7 * offset: the four
\* windows of the request, and get_week_range at every offset up to MaxOffset.
MaxOffset == 5

C3_WeekRange ==
    req.pc # "idle" =>
        /\ \A o \in 0..3 :
              /\ req.weeks[o][2] = ReqD - 7 * o
              /\ req.weeks[o][2] - req.weeks[o][1] = 6
        /\ \A o \in 0..MaxOffset :
              get_week_range(ReqD, o) = <<ReqD - 7 * o - 6, ReqD - 7 * o>>

C3_Witness ==
    /\ req.pc = "resolved"
    /\ req.data.date = None
    /\ req.weeks[1] = <<ReqD - 13, ReqD - 7>>
    /\ ReqD \notin Clock \cup ExplicitDates

\* C4: a maintained entity's change is null iff its week1 value is 0, and is
\* (v2 - v1) / v1 * 100 otherwise.
C4_MaintainedChange ==
    Answered =>
        \A i \in DOMAIN req.response.domainData :
            LET e == req.response.domainData[i]
                v1 == EntitySum(e.domain, ReqD - 13, ReqD - 7, req.data.metric)
                v2 == EntitySum(e.domain, ReqD - 6, ReqD, req.data.metric)
            IN  e.tier = "maintained" =>
                    /\ e.change = None <=> v1 = 0
                    /\ v1 # 0 =>
                          /\ e.change[1].den # 0
                          /\ e.change[1].num * v1 = (v2 - v1) * 100 * e.change[1].den

\* one maintained entity with a null change and one with a change
C4_Witness ==
    /\ Answered
    /\ \E i, j \in DOMAIN req.response.domainData :
          /\ req.response.domainData[i].tier = "maintained"
          /\ req.response.domainData[i].change = None
          /\ req.response.domainData[j].tier = "maintained"
          /\ req.response.domainData[j].change # None

\* C5: every trend has 14 values, the k-th being the entity's sum on day
\* week1_start + k - 1, 0 on a day without a matching row.
C5_TrendIsDense ==
    Answered =>
        \A i \in DOMAIN req.response.domainData :
            LET e == req.response.domainData[i]
            IN  /\ Len(e.trend) = 14
                /\ Len(e.trend) = (req.weeks[0][2] - req.weeks[1][1]) + 1
                /\ \A k \in 1..14 :
                      e.trend[k] = EntitySum(e.domain, ReqD - 14 + k, ReqD - 14 + k,
                                             req.data.metric)

\* a trend with a day that has rows and a day that has none
C5_Witness ==
    /\ Answered
    /\ \E i \in DOMAIN req.response.domainData :
          \E k, l \in 1..14 :
              /\ req.response.domainData[i].trend[k] > 0
              /\ req.response.domainData[i].trend[l] = 0

\* the value of entity e in an aggregate, 0 when it has no row there
AggValue(m, e) ==
    LET rows == SelectSeq(m, LAMBDA r : r[ReqGroupCol] = e)
    IN  IF rows = <<>> THEN 0 ELSE rows[1][req.data.metric]

\* C6: the sum of a trend is the entity's filtered sum over week1_start ..
\* week2_end, which is its week1 aggregate value plus its week2 one; rows of
\* the working slice outside that range add nothing.
C6_TrendSum ==
    Answered =>
        \A i \in DOMAIN req.response.domainData :
            LET e == req.response.domainData[i]
            IN  /\ SumSeq(e.trend) = EntitySum(e.domain, ReqD - 13, ReqD, req.data.metric)
                /\ SumSeq(e.trend) = AggValue(ReqAggregate(1), e.domain)
                                     + AggValue(ReqAggregate(0), e.domain)

\* a classified entity that also has a row of the slice before week1_start
C6_Witness ==
    /\ Answered
    /\ \E i \in DOMAIN req.response.domainData :
          /\ SumSeq(req.response.domainData[i].trend) > 0
          /\ EntitySum(req.response.domainData[i].domain, ReqD - 27, ReqD - 14,
                       req.data.metric) > 0

\* C9: a query with one of the three metrics never ends in an error; when no
\* row of the table passes the filters, the totals are 0 and domainData and
\* both pie lists are empty.
NoRowPasses ==
    \A i \in DOMAIN req.df_255 :
        \/ /\ req.data.advertiser \notin {"", "All Advertisers"}
           /\ req.df_255[i].Advertiser # req.data.advertiser
        \/ /\ req.data.campaign \notin {"", "All Campaigns"}
           /\ req.df_255[i].Campaign # req.data.campaign

C9_QueryNeverFails ==
    (req.pc = "done" /\ req.data.metric \in {"Conversions", "Clicks", "Impressions"}) =>
        /\ req.response.status = 200
        /\ req.response.kpis.week1Total \in Nat
        /\ req.response.kpis.week2Total \in Nat
        /\ Len(req.response.contributionData) = 14
        /\ Len(req.response.pieDataWeek1) <= req.data.topN + 1
        /\ Len(req.response.pieDataWeek2) <= req.data.topN + 1
        /\ NoRowPasses =>
              /\ req.response.kpis = [week1Total |-> 0, week2Total |-> 0]
              /\ req.response.domainData = <<>>
              /\ req.response.pieDataWeek1 = <<>>
              /\ req.response.pieDataWeek2 = <<>>

\* a filter that matches no row of a non-empty table, answered with status 200
C9_Witness ==
    /\ Answered
    /\ req.df_255 # <<>>
    /\ NoRowPasses

-----------------------------------------------------------------------------
(* Ingestion: analytics_queue_fetcher.fetch_and_save and its three callers  *)
(* (/api/fetch, the scheduled job, the script run on its own), and          *)
(* /api/reload.  One run is in flight at a time.                            *)

max_wait_seconds == 1200
poll_interval == 30

\* str.lower() and the substring test of line 207
LowerStr(s) == [i \in DOMAIN s |-> IF s[i] \in 65..90 THEN s[i] + 32 ELSE s[i]]
Contains(s, sub) ==
    \E i \in 1..(Len(s) - Len(sub) + 1) : SubSeq(s, i, i + Len(sub) - 1) = sub

\* success = status and "succe" in str(status).lower()
IsSuccess(status) ==
    status # None /\ status[1] # <<>>
    /\ Contains(LowerStr(status[1]), <<115, 117, 99, 99, 101>>)

Status_SUCCESS == Some(<<83, 85, 67, 67, 69, 83, 83>>)     \* "SUCCESS"
Status_RUNNING == Some(<<82, 85, 78, 78, 73, 78, 71>>)     \* "RUNNING"
Status_FAILED == Some(<<70, 65, 73, 76, 69, 68>>)          \* "FAILED"

\* what the vendor may answer
SubmitReplies == {"queued", "repeated", "rejected", "no_id"}
PollReplies ==
    {[ok |-> TRUE, status |-> st] :
        st \in {Status_SUCCESS, Status_RUNNING, Status_FAILED, None}}
    \cup {[ok |-> FALSE, status |-> None]}

\* the snapshots the vendor delivers: two reports, the later one reaching
\* later days and holding a row whose Day does not parse, and a report
\* without a Domain column
SnapshotA == Pick({1, 2, 3}, 1)
SnapshotB ==
    <<RowPool[8], Row(None, "adv1", "cmp1", Name_c, 1, 1, Some(1)), RowPool[4], RowPool[5]>>
Deliveries ==
    {[header |-> "ok", rows |-> SnapshotA],
     [header |-> "ok", rows |-> SnapshotB],
     [header |-> "nodomain", rows |-> <<>>]}

\* what the caller of a failed fetch_and_save does with the exception (lines
\* 117-119, 469-470, 283-285): /api/fetch answers 500 with str(e), the job
\* logs it, the script prints it and exits 1
ErrorResult(who, message) ==
    [outcome |-> "error",
     code    |-> IF who = "api" THEN 500 ELSE IF who = "cli" THEN 1 ELSE 0,
     message |-> message]

\* a slip: reload_data() in a finally clause
OnFetchError_Reloads(f, old) == reload_data(f, old)

\* the global df after that handler: none of them touches it
OnFetchError(f, old) == old

\* the result of a run whose fetch_and_save returned (True, path)
OkResult(who) ==
    [outcome |-> "ok",
     code    |-> IF who = "api" THEN 200 ELSE 0,
     message |-> "Fetched and reloaded: domain_data.csv"]

Fail(message) ==
    /\ run' = [run EXCEPT !.pc = "failed", !.result = ErrorResult(run.who, message)]
    /\ df' = OnFetchError(file, df)
    /\ UNCHANGED <<file, req, reload>>

\* a trigger: GET|POST /api/fetch, the 5 AM cron job, or the script
RunStart ==
    /\ run.pc = "idle"
    /\ \E who \in {"api", "job", "cli"} :
          run' = [IdleRun EXCEPT !.pc = "submit", !.who = who]
    /\ UNCHANGED <<file, df, req, reload>>

\* submit_queue (lines 117-153)
RunSubmit ==
    /\ run.pc = "submit"
    /\ \E reply \in SubmitReplies :
          \/ /\ reply \in {"queued", "repeated"}
             /\ run' = [run EXCEPT !.pc = "poll", !.queue_id = Some("q1")]
             /\ UNCHANGED <<file, df, req, reload>>
          \/ /\ reply = "rejected"
             /\ Fail("HTTPError")
          \/ /\ reply = "no_id"
             /\ Fail("No queueId/queryId in response")

\* a slip: the loop falls through to "return queue_id" when the deadline has
\* passed, instead of raising
RunPoll_TimeoutReturns ==
    /\ run.pc = "poll"
    /\ \/ /\ run.elapsed < max_wait_seconds
          /\ \E reply \in PollReplies :
                \/ /\ ~reply.ok
                   /\ Fail("HTTPError")
                \/ /\ reply.ok /\ IsSuccess(reply.status)
                   /\ run' = [run EXCEPT !.pc = "download", !.status = reply.status]
                   /\ UNCHANGED <<file, df, req, reload>>
                \/ /\ reply.ok /\ ~IsSuccess(reply.status)
                   /\ run' = [run EXCEPT !.status = reply.status,
                                         !.elapsed = run.elapsed + poll_interval]
                   /\ UNCHANGED <<file, df, req, reload>>
       \/ /\ run.elapsed >= max_wait_seconds
          /\ run' = [run EXCEPT !.pc = "download"]
          /\ UNCHANGED <<file, df, req, reload>>

\* a slip: deadline = time.time() + max_wait_seconds inside the loop, so the
\* test of the loop never fails
RunPoll_DeadlineNeverReached ==
    /\ run.pc = "poll"
    /\ \E reply \in PollReplies :
          \/ /\ ~reply.ok
             /\ Fail("HTTPError")
          \/ /\ reply.ok /\ IsSuccess(reply.status)
             /\ run' = [run EXCEPT !.pc = "download", !.status = reply.status]
             /\ UNCHANGED <<file, df, req, reload>>
          \/ /\ reply.ok /\ ~IsSuccess(reply.status)
             /\ run' = [run EXCEPT !.status = reply.status,
                                   !.elapsed = IF run.elapsed < max_wait_seconds
                                               THEN run.elapsed + poll_interval
                                               ELSE run.elapsed]
             /\ UNCHANGED <<file, df, req, reload>>

\* one pass of the loop of poll_until_succeeded (lines 200-226); status is
\* the status of the last answer, and the clock advances by the sleep
\* between two polls
RunPoll ==
    /\ run.pc = "poll"
    /\ \/ /\ run.elapsed < max_wait_seconds
          /\ \E reply \in PollReplies :
                \/ /\ ~reply.ok
                   /\ Fail("HTTPError")
                \/ /\ reply.ok /\ IsSuccess(reply.status)
                   /\ run' = [run EXCEPT !.pc = "download", !.status = reply.status]
                   /\ UNCHANGED <<file, df, req, reload>>
                \/ /\ reply.ok /\ ~IsSuccess(reply.status)
                   /\ run' = [run EXCEPT !.status = reply.status,
                                         !.elapsed = run.elapsed + poll_interval]
                   /\ UNCHANGED <<file, df, req, reload>>
       \/ /\ run.elapsed >= max_wait_seconds
          /\ Fail("TimeoutError")

\* download_queue_file up to the open of write_bytes (lines 229-240): the GET
\* fails, or the file is opened for writing, which truncates it
RunDownload ==
    /\ run.pc = "download"
    /\ \/ Fail("HTTPError")
       \/ \E content \in Deliveries :
             /\ run' = [run EXCEPT !.pc = "writing", !.content = content, !.written = 0]
             /\ file' = [exists |-> TRUE, header |-> "none", rows |-> <<>>]
             /\ UNCHANGED <<df, req, reload>>

\* write_bytes writes the content front to back; another thread or process
\* that reads the file meanwhile sees a prefix: the header line first, then
\* the rows
RunWrite ==
    /\ run.pc = "writing"
    /\ \/ /\ run.written = 0
          /\ file' = [file EXCEPT !.header = run.content.header]
          /\ run' = [run EXCEPT !.written = 1]
       \/ /\ run.written >= 1 /\ run.written <= Len(run.content.rows)
          /\ file' = [file EXCEPT !.rows = Append(file.rows, run.content.rows[run.written])]
          /\ run' = [run EXCEPT !.written = run.written + 1]
       \/ /\ run.written > Len(run.content.rows)
          /\ run' = [run EXCEPT !.pc = "saved"]
          /\ UNCHANGED file
    /\ UNCHANGED <<df, req, reload>>

\* fetch_and_save returned (True, path): /api/fetch and the job call
\* reload_data(), the script exits
RunReload ==
    /\ run.pc = "saved"
    /\ df' = IF run.who = "cli" THEN df ELSE reload_data(file, df)
    /\ run' = [run EXCEPT !.pc = "done", !.result = OkResult(run.who)]
    /\ UNCHANGED <<file, req, reload>>

\* the response is sent / the job returns
RunEnd ==
    /\ run.pc \in {"done", "failed"}
    /\ run' = IdleRun
    /\ UNCHANGED <<file, df, req, reload>>

\* the answer of api_reload when reload_data() has returned (line 97); the
\* except clause of lines 98-100 is reached only by an exception that
\* escapes reload_data(), which catches every Exception itself
api_reload_response(table) ==
    [code |-> 200, status |-> "ok", message |-> "Data reloaded from domain_data.csv",
     rows |-> Len(table)]

\* GET|POST /api/reload (lines 92-100): reload_data(), then the answer with
\* len(df); logged records that reload_data() went through its except clause
\* (logger.exception, line 63)
ApiReload ==
    /\ reload.pc = "idle"
    /\ df' = reload_data(file, df)
    /\ reload' = [pc |-> "done", logged |-> load_data(file).raised,
                  response |-> api_reload_response(df')]
    /\ UNCHANGED <<file, req, run>>

\* the answer is sent
ApiReloadReturn ==
    /\ reload.pc = "done"
    /\ reload' = IdleReload
    /\ UNCHANGED <<file, df, req, run>>

-----------------------------------------------------------------------------
(* The ingestion side of the server: runs and reloads interleaved.  The     *)
(* process starts with the file missing or holding an earlier report.       *)

Init ==
    /\ file \in {MissingFile, CsvFile(SnapshotA)}
    /\ df = load_data(file).df
    /\ req = IdleReq
    /\ run = IdleRun
    /\ reload = IdleReload

Next ==
    \/ ApiReload \/ ApiReloadReturn
    \/ RunStart \/ RunSubmit \/ RunPoll \/ RunDownload \/ RunWrite \/ RunReload \/ RunEnd

Spec == Init /\ [][Next]_vars

\* the same with the scheduling of the ingestion thread: a run that is in
\* its poll loop goes on to the next pass (requests.get has a timeout of 30
\* seconds, time.sleep returns)
SpecLive == Spec /\ WF_vars(RunPoll)

-----------------------------------------------------------------------------
(* The serving side: dashboard requests interleaved with reloads.  The      *)
(* server has loaded one report; the file holds the same or another one     *)
(* (a run of the script, or an ingestion run before its reload, has saved   *)
(* it), and a reload may install it at any moment.                          *)

ServedFiles == {MissingFile, CsvFile(SnapshotA), CsvFile(SnapshotB)}

LiveRequests ==
    {d \in Requests : d.analysisType = "Domain" /\ d.campaign = "All Campaigns"}

InitServe ==
    /\ file \in ServedFiles
    /\ df \in {load_data(f).df : f \in ServedFiles}
    /\ req = IdleReq
    /\ run = IdleRun
    /\ reload = IdleReload

NextServe ==
    \/ ReqBegin(LiveRequests) \/ ReqSlice \/ ReqRespond \/ ReqReturn
    \/ ApiReload \/ ApiReloadReturn

SpecServe == InitServe /\ [][NextServe]_vars

-----------------------------------------------------------------------------
(* Properties of reloads and ingestion *)

\* C7: a request answers from one table: its response is what the handler
\* computes on the table it read at line 229 alone, or on the table it read
\* at line 255 alone.
C7_ResponseFromOneTable ==
    req.pc = "done" =>
        \E now \in Clock :
            \/ req.response = get_dashboard_data(req.df_229, req.data, now)
            \/ req.response = get_dashboard_data(req.df_255, req.data, now)

\* the tables that hold a whole report (or none, before the first one)
WholeTables ==
    {EmptyTable} \cup
    {load_data(CsvFile(c.rows)).df : c \in {d \in Deliveries : d.header = "ok"}}

\* C8: the table of the server is always the whole content of one snapshot.
C8_TableIsWholeSnapshot == df \in WholeTables

\* C10: a run that fails at submit, poll or download has not changed the
\* table and changes it no more, and its caller gets an error with a
\* message, /api/fetch a non-2xx status.
C10_FailedRunKeepsTable ==
    [][/\ (run.pc \in {"submit", "poll", "download", "writing"} /\ run' # run)
             => df' = df
       /\ (run.pc \in {"submit", "poll", "download"} /\ run'.pc = "failed")
             => /\ df' = df
                /\ run'.result.outcome = "error"
                /\ run'.result.message # ""
                /\ run.who = "api" => run'.result.code \notin 200..299
       /\ (run.pc = "failed" /\ run' # run)
             => run'.pc = "idle" /\ df' = df]_vars

\* /api/fetch has timed out while the file holds a report the server has not
\* loaded
C10_Witness ==
    /\ run.pc = "failed"
    /\ run.who = "api"
    /\ run.result.message = "TimeoutError"
    /\ ~load_data(file).raised
    /\ load_data(file).df # df

-----------------------------------------------------------------------------
(* Properties of loads and reloads that fail *)

\* the file cannot be loaded: it is missing, or load_data raises on it
Unloadable(f) == ~f.exists \/ load_data(f).raised

\* C11: a reload whose snapshot file is missing or malformed, be it the one
\* of /api/reload or the one that ends an ingestion run, leaves the empty
\* table as the table of the server, and its caller sees no failure.
C11_BadSnapshotGivesEmptyTable ==
    [][/\ (reload.pc = "idle" /\ reload'.pc = "done" /\ Unloadable(file))
             => /\ df' = EmptyTable
                /\ reload'.response.status = "ok"
       /\ (run.pc = "saved" /\ run'.pc = "done" /\ run.who # "cli" /\ Unloadable(file))
             => /\ df' = EmptyTable
                /\ run'.result.outcome = "ok"]_vars

\* C12: an /api/reload whose load_data() failed is answered with a non-2xx
\* status and a message, and a 2xx answer is given only when the table was
\* replaced by the newly loaded one.
C12_FailedReloadAnswersError ==
    reload.pc = "done" =>
        /\ reload.logged =>
              /\ reload.response.code \notin 200..299
              /\ reload.response.message # ""
        /\ reload.response.code \in 200..299 => ~reload.logged

-----------------------------------------------------------------------------
(* Properties of the new and dropped tiers *)

\* the rank of entity e in an aggregate it has a row in
AggRank(m, e) == SelectSeq(m, LAMBDA r : r[ReqGroupCol] = e)[1].Rank

\* C13: a new entity without a week1 row is emitted with week1 value 0 and
\* with rank1, change and rankChange null, its week2 value and rank2 being
\* those of its week2 row; when no row at all falls in week1, every entity of
\* the week2 top N is emitted as new with rank1 and change null.
C13_NewWithoutWeek1Row ==
    Answered =>
        LET dd == req.response.domainData
            week1_keys == KeysIn(ReqD - 13, ReqD - 7)
        IN  /\ \A i \in DOMAIN dd :
                  (dd[i].tier = "new" /\ dd[i].domain \notin week1_keys) =>
                      /\ dd[i].week1Conv = 0
                      /\ dd[i].rank1 = None
                      /\ dd[i].change = None
                      /\ dd[i].rankChange = None
                      /\ dd[i].week2Conv =
                             IntOf(req.data.metric,
                                   EntitySum(dd[i].domain, ReqD - 6, ReqD, req.data.metric))
                      /\ dd[i].rank2 = Some(AggRank(ReqAggregate(0), dd[i].domain))
            /\ week1_keys = {} =>
                  \A e \in ReqTop(0) :
                      \E i \in DOMAIN dd :
                          /\ dd[i].domain = e
                          /\ dd[i].tier = "new"
                          /\ dd[i].rank1 = None
                          /\ dd[i].change = None

\* two entities with week2 values 30 and 10 against an empty week1: both new
C13_Witness ==
    /\ Answered
    /\ KeysIn(ReqD - 13, ReqD - 7) = {}
    /\ \E i, j \in DOMAIN req.response.domainData :
          /\ i # j
          /\ req.response.domainData[i].tier = "new"
          /\ req.response.domainData[j].tier = "new"
          /\ req.response.domainData[i].week2Conv > req.response.domainData[j].week2Conv
          /\ req.response.domainData[j].week2Conv > 0

\* what C14 says of every field but change: a dropped entity without a week2
\* row has week2 value 0, rank2 and rankChange null, and the value and rank
\* of its week1 row
DroppedWithoutWeek2Row(e) ==
    /\ e.week2Conv = 0
    /\ e.rank2 = None
    /\ e.rankChange = None
    /\ e.week1Conv = IntOf(req.data.metric,
                           EntitySum(e.domain, ReqD - 13, ReqD - 7, req.data.metric))
    /\ e.rank1 = Some(AggRank(ReqAggregate(1), e.domain))

\* C14 as stated: a dropped entity without a week2 row is emitted with week2
\* value 0 and with rank2, change and rankChange null, its week1 value and
\* rank1 being those of its week1 row.
C14_DroppedWithoutWeek2Row_AsStated ==
    Answered =>
        \A i \in DOMAIN req.response.domainData :
            LET e == req.response.domainData[i]
            IN  (e.tier = "dropped" /\ e.domain \notin KeysIn(ReqD - 6, ReqD)) =>
                    /\ DroppedWithoutWeek2Row(e)
                    /\ e.change = None

\* C14 amended: the same, except that change is -100, (0 - v1) / v1 * 100,
\* when the week1 value is above 0, and null otherwise.
C14_DroppedWithoutWeek2Row ==
    Answered =>
        \A i \in DOMAIN req.response.domainData :
            LET e == req.response.domainData[i]
                v1 == EntitySum(e.domain, ReqD - 13, ReqD - 7, req.data.metric)
            IN  (e.tier = "dropped" /\ e.domain \notin KeysIn(ReqD - 6, ReqD)) =>
                    /\ DroppedWithoutWeek2Row(e)
                    /\ e.change = None <=> ~(v1 > 0)
                    /\ v1 > 0 =>
                          /\ e.change[1].den > 0
                          /\ e.change[1].num = (0 - 100) * e.change[1].den

\* a dropped entity with a week1 value above 0 and no row in week2, next to
\* a dropped entity with week1 value 0 and no row in week2
C14_Witness ==
    /\ Answered
    /\ \E i, j \in DOMAIN req.response.domainData :
          LET e == req.response.domainData[i]
              z == req.response.domainData[j]
          IN  /\ e.tier = "dropped" /\ z.tier = "dropped"
              /\ {e.domain, z.domain} \cap KeysIn(ReqD - 6, ReqD) = {}
              /\ e.week1Conv > 0 /\ e.change # None
              /\ z.change = None

\* C17: a new entity with a week1 row and a dropped entity with a week2 row
\* are emitted with both ranks and with rankChange = rank1 - rank2, and the
\* rankChange of a new or dropped entity is null only when that counterpart
\* row is absent.
C17_RankChangeWhenCounterpartExists ==
    Answered =>
        \A i \in DOMAIN req.response.domainData :
            LET e == req.response.domainData[i]
                in_week1 == e.domain \in KeysIn(ReqD - 13, ReqD - 7)
                in_week2 == e.domain \in KeysIn(ReqD - 6, ReqD)
            IN  /\ e.tier = "new" => (e.rankChange = None <=> ~in_week1)
                /\ e.tier = "dropped" => (e.rankChange = None <=> ~in_week2)
                /\ (e.tier \in {"new", "dropped"} /\ in_week1 /\ in_week2) =>
                      /\ e.rank1 = Some(AggRank(ReqAggregate(1), e.domain))
                      /\ e.rank2 = Some(AggRank(ReqAggregate(0), e.domain))
                      /\ e.rankChange = Some(AggRank(ReqAggregate(1), e.domain)
                                             - AggRank(ReqAggregate(0), e.domain))

\* a new entity that was ranked beyond topN in week1, next to a dropped
\* entity that is ranked beyond topN in week2
C17_Witness ==
    /\ Answered
    /\ \E i, j \in DOMAIN req.response.domainData :
          LET n == req.response.domainData[i]
              d == req.response.domainData[j]
          IN  /\ n.tier = "new" /\ n.rank1 # None /\ n.rank1[1] > req.data.topN
              /\ n.rankChange # None /\ n.rankChange[1] > 0
              /\ d.tier = "dropped" /\ d.rank2 # None /\ d.rank2[1] > req.data.topN
              /\ d.rankChange # None /\ d.rankChange[1] < 0

-----------------------------------------------------------------------------
(* Properties of the contribution rows, the ranking order and the totals *)

\* C15: every row of contributionData has, besides its date, one field per
\* entity of the classified union, as many fields as the union has entities,
\* and the field of entity e (under its label of at most 40 characters)
\* holds the integer part of e's filtered sum of the metric on that day.
C15_ContributionFieldPerEntity ==
    Answered =>
        LET union == ReqTop(1) \cup ReqTop(0)
            cd == req.response.contributionData
        IN  \A k \in DOMAIN cd :
                /\ DateKey \in DOMAIN cd[k]
                /\ Cardinality(DOMAIN cd[k] \ {DateKey}) = Cardinality(union)
                /\ \A e \in union :
                      /\ Truncate(e) \in DOMAIN cd[k]
                      /\ cd[k][Truncate(e)] =
                             IntOf(req.data.metric,
                                   EntitySum(e, ReqD - 14 + k, ReqD - 14 + k, req.data.metric))

\* the 3-key tuple of entity e in the window of an offset, summed from the
\* rows of the working slice, in the priority order of the metric
KeyTuple(e, offset) ==
    LET lo == ReqD - 7 * offset - 6
        hi == ReqD - 7 * offset
        conversions == EntitySum(e, lo, hi, "Conversions")
        clicks == EntitySum(e, lo, hi, "Clicks")
        impressions == EntitySum(e, lo, hi, "Impressions")
    IN  IF req.data.metric = "Clicks" THEN <<clicks, conversions, impressions>>
        ELSE IF req.data.metric = "Impressions" THEN <<impressions, conversions, clicks>>
        ELSE <<conversions, clicks, impressions>>

\* a >= b in lexicographic order
LexGE(a, b) ==
    \/ a[1] > b[1]
    \/ a[1] = b[1] /\ a[2] > b[2]
    \/ a[1] = b[1] /\ a[2] = b[2] /\ a[3] >= b[3]

\* C16: in every aggregate of a request with one of the three metrics, an
\* entry of rank i has a key tuple >= that of every entry of rank j > i, the
\* tuple being (conversions, clicks, impressions), (clicks, conversions,
\* impressions) or (impressions, conversions, clicks) by the metric.
C16_RankedDescendingByKeyTuple ==
    (req.pc \in {"sliced", "done"} /\ req.data.metric \in Metrics) =>
        \A offset \in 0..2 :
            LET m == ReqAggregate(offset)
            IN  \A i, j \in DOMAIN m :
                    m[i].Rank < m[j].Rank =>
                        LexGE(KeyTuple(m[i][ReqGroupCol], offset),
                              KeyTuple(m[j][ReqGroupCol], offset))

\* week1 holds three entities equal on the primary key, two of them also on
\* the second key and told apart by the third
C16_Witness ==
    /\ req.pc = "done"
    /\ req.data.metric \in Metrics
    /\ LET m == ReqAggregate(1)
       IN  /\ Len(m) = 3
           /\ \E i, j, k \in DOMAIN m :
                 LET a == KeyTuple(m[i][ReqGroupCol], 1)
                     b == KeyTuple(m[j][ReqGroupCol], 1)
                     c == KeyTuple(m[k][ReqGroupCol], 1)
                 IN  /\ m[i].Rank < m[j].Rank /\ m[j].Rank < m[k].Rank
                     /\ a[1] = b[1] /\ b[1] = c[1]
                     /\ a[2] = b[2] /\ a[3] > b[3]
                     /\ b[2] > c[2]

\* every Conversions value of the working slice is a whole number
IntegerValued ==
    \A i \in DOMAIN req.df_range : req.df_range[i].Conversions % ConvDen = 0

\* the sum of the metric over the entities of the aggregate of an offset
GroupedTotal(offset) ==
    SumSeq([i \in DOMAIN ReqAggregate(offset) |->
               IntOf(req.data.metric, ReqAggregate(offset)[i][req.data.metric])])

\* C18: with whole-numbered metric values, the KPI total of week1 is the sum
\* of the metric over the entities of the week1 aggregate, and the KPI total
\* of week2 that over the entities of the week2 aggregate.
C18_TotalsEqualGroupedSums ==
    (Answered /\ IntegerValued) =>
        /\ req.response.kpis.week1Total = GroupedTotal(1)
        /\ req.response.kpis.week2Total = GroupedTotal(0)

-----------------------------------------------------------------------------
(* The rows a response depends on *)

\* the rows of a table dated from D - 13 to D
TwoWeeks(table, D) == SelectSeq(table, LAMBDA r : r.Date >= D - 13 /\ r.Date <= D)

\* C19: with an explicit anchor date D, the response is the one the handler
\* gives on the rows dated D - 13 .. D alone, so any two tables with the same
\* rows in that range are answered alike in kpis, domainData,
\* contributionData and pie lists.
C19_DependsOnTwoWeeksOnly ==
    (req.pc = "done" /\ req.data.date # None) =>
        \A now \in Clock :
            req.response =
                get_dashboard_data(TwoWeeks(req.df_255, req.data.date[1]), req.data, now)

\* the table holds a row of week0 and a row after D, both of an entity that
\* is classified, besides the rows of the two weeks
C19_Witness ==
    /\ Answered
    /\ req.data.date # None
    /\ \E i \in DOMAIN req.response.domainData :
          LET e == req.response.domainData[i].domain
              Has(lo, hi) == \E k \in DOMAIN req.df_255 :
                                 /\ req.df_255[k][ReqGroupCol] = e
                                 /\ req.df_255[k].Date \in lo..hi
          IN  /\ Has(ReqD - 20, ReqD - 14) /\ Has(ReqD - 13, ReqD)
              /\ \E k \in DOMAIN req.df_255 : req.df_255[k].Date > ReqD

-----------------------------------------------------------------------------
(* Properties of the poll loop *)

\* C20: the poll loop ends.  A pass leaves the loop for the download, with
\* the queue id, exactly when its answer has the status SUCCESS; a pass with
\* any other status waits poll_interval and polls again while the deadline
\* of max_wait_seconds is not reached; at the deadline the loop ends with a
\* TimeoutError, which the caller of the run gets as an error while the
\* table and the dashboard request are left alone; and a run that polls
\* eventually polls no more.
C20_PollTerminates ==
    /\ [][(run.pc = "poll" /\ run' # run) =>
             /\ run'.pc \in {"poll", "download", "failed"}
             /\ run'.pc = "download" <=> run'.status = Status_SUCCESS
             /\ run'.pc = "download" =>
                   /\ run'.queue_id = run.queue_id
                   /\ run.queue_id # None
                   /\ run.elapsed < max_wait_seconds
             /\ run'.pc = "poll" =>
                   /\ run.elapsed < max_wait_seconds
                   /\ run'.elapsed = run.elapsed + poll_interval
             /\ run.elapsed >= max_wait_seconds =>
                   /\ run'.pc = "failed"
                   /\ run'.result.outcome = "error"
                   /\ run'.result.message = "TimeoutError"
             /\ run'.pc = "failed" => (df' = df /\ req' = req)]_vars
    /\ (run.pc = "poll" ~> run.pc # "poll")

\* a run whose every poll was answered FAILED has timed out at the deadline
C20_Witness ==
    /\ run.pc = "failed"
    /\ run.result.message = "TimeoutError"
    /\ run.status = Status_FAILED
    /\ run.elapsed = max_wait_seconds

-----------------------------------------------------------------------------
(* Properties of the order of the steps of a run *)

\* the steps of a run in their order, and the step each may be followed by
StepAfter(pc) ==
    IF pc = "idle" THEN {"submit"}
    ELSE IF pc = "submit" THEN {"poll", "failed"}
    ELSE IF pc = "poll" THEN {"poll", "download", "failed"}
    ELSE IF pc = "download" THEN {"writing", "failed"}
    ELSE IF pc = "writing" THEN {"writing", "saved"}
    ELSE IF pc = "saved" THEN {"done"}
    ELSE {"idle"}

\* C21: a run goes through submit, poll, download and reload in that order.
\* The snapshot file is written only by a run that is downloading, after a
\* poll of its queue id was answered SUCCESS; the table is replaced by a run
\* (that is, other than by an /api/reload request) only in the reload that
\* follows the completed write, from the file that holds the whole
\* download; and a run that has failed writes no file and replaces no table.
C21_StepsInOrder ==
    [][/\ run' # run => run'.pc \in StepAfter(run.pc)
       /\ file' # file =>
             /\ run.pc \in {"download", "writing"}
             /\ run.status = Status_SUCCESS
             /\ run.queue_id # None
       /\ (df' # df /\ reload' = reload) =>
             /\ run.pc = "saved" /\ run'.pc = "done"
             /\ run.written > Len(run.content.rows)
             /\ file.header = run.content.header /\ file.rows = run.content.rows
             /\ df' = load_data(file).df
       /\ run.pc = "failed" => (file' = file /\ (reload' = reload => df' = df))]_vars

\* /api/fetch has gone through the four steps, the first poll answered
\* RUNNING, and the table is the later report it downloaded
C21_Witness ==
    /\ run.pc = "done"
    /\ run.who = "api"
    /\ run.elapsed > 0
    /\ run.status = Status_SUCCESS
    /\ file = CsvFile(SnapshotB)
    /\ df = load_data(file).df
    /\ df # EmptyTable

====
